---- MODULE Spec2Model ----
(***************************************************************************)
(* Orbital-Sim: ground station -> uplink simulator -> orbital node, with   *)
(* the node's radiative thermal engine gating job admission.               *)
(*                                                                         *)
(* Fixed-point conventions (the source computes in IEEE doubles):          *)
(*   temperatures   micro-Kelvin   (293.15 K = 293150000)                  *)
(*   powers         milli-Watt     (50 W     = 50000)                      *)
(*   durations      milli-second   (1 s      = 1000)                       *)
(*   emissivity     percent        (0.92     = 92)                         *)
(*   sigma          1e-10 W/m2/K4  (5.67e-8  = 567)                        *)
(* Divisions round to the nearest unit, as the double arithmetic rounds   *)
(* to the nearest representable value; T^4 is formed from T cut to whole   *)
(* milli-Kelvin and kept in units of 100 K^4 (relative error below 1e-5).  *)
(***************************************************************************)
EXTENDS Integers, Sequences, FiniteSets, TLC

\* ------------------------------------------------------------------ bounds
MaxJobs == 2
MaxClock == 1
MaxTicks == 4

\* ------------------------------------------------------- exact arithmetic
Abs(x) == IF x < 0 THEN -x ELSE x

\* One digit of a long multiplication: from h = <<q, r>> with
\* a * n = q * c + r to the pair for a * (64 * n + dg), 0 <= dg < 64.
MulDivStep(h, a, dg, c) ==
    LET t == 64 * h[2] + (a % c) * dg
    IN  <<64 * h[1] + (a \div c) * dg + t \div c, t % c>>

\* <<q, r>> with a * b = q * c + r and 0 <= r < c, for a >= 0,
\* 0 <= b < 2^30 and 0 < c < 2^24, without ever forming the product a * b:
\* b is taken as five digits in base 64.
MulDivQR(a, b, c) ==
    LET d4 == (b \div 16777216) % 64
        d3 == (b \div 262144) % 64
        d2 == (b \div 4096) % 64
        d1 == (b \div 64) % 64
        d0 == b % 64
    IN  MulDivStep(MulDivStep(MulDivStep(MulDivStep(MulDivStep(
            <<0, 0>>, a, d4, c), a, d3, c), a, d2, c), a, d1, c), a, d0, c)

\* a * b / c rounded to the nearest integer (half away from zero), signed a.
MulDivRound(a, b, c) ==
    LET qr == MulDivQR(Abs(a), b, c)
        m  == IF 2 * qr[2] >= c THEN qr[1] + 1 ELSE qr[1]
    IN  IF a < 0 THEN -m ELSE m

\* x / c rounded to the nearest integer (half away from zero), signed x.
RoundDiv(x, c) ==
    LET m == (2 * Abs(x) + c) \div (2 * c)
    IN  IF x < 0 THEN -m ELSE m

\* ------------------------------------------------- thermal engine (pure)
\* An intermediate value of a computation is bound as the element of a
\* one-element set, so that it is computed once wherever it is used.
STEFAN_BOLTZMANN_SIGMA == 567
DEEP_SPACE_TEMP_K == 3
KELVIN_OFFSET == 273150000

DefaultConfig ==
    [mass_kg |-> 50, specific_heat_j_kg_k |-> 900, surface_area_m2 |-> 1,
     emissivity |-> 92, max_temp_k |-> 353150000, initial_temp_k |-> 293150000]

\* test_overheating_trip: ThermalConfig(mass_kg=10.0, max_temp_k=353.15)
SmallMassConfig == [DefaultConfig EXCEPT !.mass_kg = 10]

\* ThermalConfig(initial_temp_k=100.0): an engine that starts cold.
ColdStartConfig == [DefaultConfig EXCEPT !.initial_temp_k = 100000000]

\* current_temp_c: Kelvin to Celsius, in micro-degrees.
CurrentTempC(temp_k) == temp_k - KELVIN_OFFSET

\* f"{x:.2f}": a micro-degree value printed with two decimals, as an
\* integer number of hundredths of a degree.
Format2f(micro) == RoundDiv(micro, 10000)

\* T^4 in units of 100 K^4, from T in micro-Kelvin.
Pow4(temp_k) ==
    CHOOSE t4 \in { MulDivRound(t2, t2, 10000) :
                    t2 \in { MulDivRound(tm, tm, 100000) :
                             tm \in {Abs(temp_k) \div 1000} } } : TRUE

\* CalculateRejectionWatts, but the emissivity factor is left out (a black
\* body).
CalculateRejectionWattsBlackBody(cfg, temp_k) ==
    LET coeff == 100 * STEFAN_BOLTZMANN_SIGMA * cfg.surface_area_m2
    IN  CHOOSE watts \in { MulDivRound(delta_t_4, coeff, 10000000) :
                delta_t_4 \in {Pow4(temp_k) - Pow4(DEEP_SPACE_TEMP_K * 1000000)} } : TRUE

\* calculate_rejection_watts: e * sigma * A * (T^4 - T_space^4), milli-Watt.
CalculateRejectionWatts(cfg, temp_k) ==
    LET coeff == cfg.emissivity * STEFAN_BOLTZMANN_SIGMA * cfg.surface_area_m2
    IN  CHOOSE watts \in { MulDivRound(delta_t_4, coeff, 10000000) :
                delta_t_4 \in {Pow4(temp_k) - Pow4(DEEP_SPACE_TEMP_K * 1000000)} } : TRUE

\* TickTemp, but the radiated power is added to the load (a sign slip).
TickTempSignSlip(cfg, temp_k, load_watts, dt_seconds) ==
    LET thermal_mass == cfg.mass_kg * cfg.specific_heat_j_kg_k
    IN  CHOOSE temp \in { temp_k + MulDivRound(net_power, dt_seconds, thermal_mass) :
                net_power \in { load_watts + radiated_watts :
                    radiated_watts \in {CalculateRejectionWatts(cfg, temp_k)} } } : TRUE

\* Steps 1-4 of tick: the temperature after the update.
TickTemp(cfg, temp_k, load_watts, dt_seconds) ==
    LET thermal_mass == cfg.mass_kg * cfg.specific_heat_j_kg_k
    IN  CHOOSE temp \in { temp_k + MulDivRound(net_power, dt_seconds, thermal_mass) :
                net_power \in { load_watts - radiated_watts :
                    radiated_watts \in {CalculateRejectionWatts(cfg, temp_k)} } } : TRUE

NoError == [raised |-> FALSE, temp_c |-> 0, limit_c |-> 0]

\* The ThermalThrottlingException a tick raises: the message carries the
\* current Celsius value with two decimals and the limit in Celsius.
OverheatError(cfg, temp_k) ==
    [raised |-> TRUE, temp_c |-> Format2f(CurrentTempC(temp_k)),
     limit_c |-> cfg.max_temp_k - KELVIN_OFFSET]

\* Tick, but a raising tick restores the temperature it started from.
TickRollback(cfg, temp_k, load_watts, dt_seconds) ==
    CHOOSE r \in { [temp  |-> IF post >= cfg.max_temp_k THEN temp_k ELSE post,
                    error |-> IF post >= cfg.max_temp_k
                              THEN OverheatError(cfg, post) ELSE NoError] :
                   post \in {TickTemp(cfg, temp_k, load_watts, dt_seconds)} } : TRUE

\* Tick, but an engine found over the limit raises whatever the update gives.
TickLatched(cfg, temp_k, load_watts, dt_seconds) ==
    CHOOSE r \in { [temp  |-> post,
                    error |-> IF post >= cfg.max_temp_k \/ temp_k >= cfg.max_temp_k
                              THEN OverheatError(cfg, post) ELSE NoError] :
                   post \in {TickTemp(cfg, temp_k, load_watts, dt_seconds)} } : TRUE

\* Tick, but the safety check of step 5 is missing: nothing is ever raised.
TickUnchecked(cfg, temp_k, load_watts, dt_seconds) ==
    CHOOSE r \in { [temp |-> post, error |-> NoError] :
                   post \in {TickTemp(cfg, temp_k, load_watts, dt_seconds)} } : TRUE

\* Tick, but the stored Kelvin temperature is compared with the limit in
\* Celsius (a unit slip).
TickCelsiusLimit(cfg, temp_k, load_watts, dt_seconds) ==
    CHOOSE r \in { [temp  |-> post,
                    error |-> IF post >= cfg.max_temp_k - KELVIN_OFFSET
                              THEN OverheatError(cfg, post) ELSE NoError] :
                   post \in {TickTemp(cfg, temp_k, load_watts, dt_seconds)} } : TRUE

\* tick(load_watts, dt_seconds) on an engine at temp_k: the temperature it
\* stores (step 4) and the exception it then raises, if any (step 5). The
\* update is computed once and named post.
Tick(cfg, temp_k, load_watts, dt_seconds) ==
    CHOOSE r \in { [temp  |-> post,
                    error |-> IF post >= cfg.max_temp_k
                              THEN OverheatError(cfg, post) ELSE NoError] :
                   post \in {TickTemp(cfg, temp_k, load_watts, dt_seconds)} } : TRUE

\* ----------------------------------------------------- program constants
IDLE_LOAD_WATTS == 50000
IDLE_DT_SECONDS == 1000
SIMULATED_LOAD_WATTS == 500000
MIN_VISIBLE_DURATION == 100
FLOOR_DURATION == 500
NODE_TIMEOUT == 10000
MIN_LATENCY_MS == 500
MAX_LATENCY_MS == 2000
MOCK_PREFIX_CHARS == 50

\* ------------------------------------------------------------ input sets
Jobs == 1..MaxJobs

\* TrainingJob bodies: the snippet is modelled by its UTF-8 byte length.
JobInputs == { [dataset_snippet |-> 100, priority |-> "NORMAL"] }

\* Drawn link latencies, random.randint(MIN_LATENCY_MS, MAX_LATENCY_MS).
Latencies == {MIN_LATENCY_MS, 1001, MAX_LATENCY_MS}

\* Measured wall-clock durations of the job body, time.time() differences.
Durations == {0, 300, 12000, 24000000}

\* Loads and steps a direct caller of the engine applies (test_thermal.py).
TickLoads == {0, 50000, 500000, 5000000}
TickSteps == {1000, 60000}

\* ----------------------------------------------------------------- state
VARIABLES
    config,          \* radiator.config
    current_temp_k,  \* radiator.current_temp_k
    last_tick,       \* the latest tick that took effect
    tick_count,      \* number of ticks applied since start-up
    kernel_ok,       \* kernel and summarize_function were built at start-up
    clock,           \* wall clock of the ground station, whole seconds
    job_req,         \* the body of each upload_job request
    ground_pc,       \* position of upload_job / _execute_launch_protocol
    upload_resp,     \* what upload_job returned to the submitter
    ground_log,      \* what the launch task printed at its end
    uplink_pc,       \* position of transmit_packet
    uplink_delay,    \* the latency transmit_packet drew
    uplink_resp,     \* what transmit_packet answered
    transmit_calls,  \* number of POST /transmit issued per job
    node_pc,         \* position of process_job
    node_resp,       \* what process_job answered
    process_calls,   \* number of POST /process_job issued per job
    job_ticks,       \* the ticks each process_job request has applied
    telemetry_resp,  \* the answer of the node's GET /telemetry
    dashboard_resp,  \* the answer of the ground's GET /api/telemetry
    chain_probed,    \* which hops were reachable when it was asked
    watts_out        \* the value of a direct calculate_rejection_watts()

engineVars == <<config, current_temp_k, last_tick, tick_count, kernel_ok>>
groundVars == <<clock, job_req, ground_pc, upload_resp, ground_log>>
uplinkVars == <<uplink_pc, uplink_delay, uplink_resp, transmit_calls>>
nodeVars   == <<node_pc, node_resp, process_calls, job_ticks>>
probeVars  == <<telemetry_resp, dashboard_resp, chain_probed, watts_out>>
vars == <<engineVars, groundVars, uplinkVars, nodeVars, probeVars>>

NoResp == [status |-> 0]
NoTick == [job |-> 0, phase |-> "none", load |-> 0, dt |-> 0,
           pre |-> 0, post |-> 0, error |-> NoError]

NoProbe == [uplink |-> FALSE, node |-> FALSE]
NoReading == [temp_k |-> 0, watts |-> 0]

\* The answer of a read-only endpoint is with its caller by the time any
\* handler takes its next step: the state holds the latest answer only.
ProbesConsumed ==
    /\ telemetry_resp' = NoResp
    /\ dashboard_resp' = NoResp
    /\ chain_probed' = NoProbe
    /\ watts_out' = NoReading

\* The one client that polls the read-only endpoints asks again only after
\* its previous answer was taken.
NoAnswerPending ==
    /\ telemetry_resp = NoResp
    /\ dashboard_resp = NoResp
    /\ chain_probed = NoProbe
    /\ watts_out = NoReading

PipelineInit ==
    /\ clock = 0
    /\ job_req = [j \in Jobs |-> [dataset_snippet |-> 0, priority |-> "NORMAL"]]
    /\ ground_pc = [j \in Jobs |-> "idle"]
    /\ upload_resp = [j \in Jobs |-> NoResp]
    /\ ground_log = [j \in Jobs |-> [kind |-> "none", status |-> 0]]
    /\ uplink_pc = [j \in Jobs |-> "none"]
    /\ uplink_delay = [j \in Jobs |-> 0]
    /\ uplink_resp = [j \in Jobs |-> NoResp]
    /\ transmit_calls = [j \in Jobs |-> 0]
    /\ node_pc = [j \in Jobs |-> "none"]
    /\ node_resp = [j \in Jobs |-> NoResp]
    /\ process_calls = [j \in Jobs |-> 0]
    /\ job_ticks = [j \in Jobs |-> <<>>]
    /\ telemetry_resp = NoResp
    /\ dashboard_resp = NoResp
    /\ chain_probed = NoProbe
    /\ watts_out = NoReading

\* radiator = RadiatorSystem(): the default configuration; the kernel is
\* built, or not, once at import time.
Init ==
    /\ config = DefaultConfig
    /\ current_temp_k = config.initial_temp_k
    /\ last_tick = NoTick
    /\ tick_count = 0
    /\ kernel_ok \in BOOLEAN
    /\ PipelineInit

\* One tick that took effect: who applied it and what it did.
TickEntry(j, phase, load, dt, pre, r) ==
    [job |-> j, phase |-> phase, load |-> load, dt |-> dt,
     pre |-> pre, post |-> r.temp, error |-> r.error]

\* ------------------------------------------------- ground station (8000)
\* json=payload_data of the launch task: {"data": ..., "priority": ...}.
UplinkPayload(j) ==
    [data |-> job_req[j].dataset_snippet, priority |-> job_req[j].priority]

\* package_payload after its sleep: the manifest, stamped from the clock.
\* size_kb is kept in units of 1/1024 kB, that is, in bytes.
PackagePayload(data, now) ==
    [payload_id |-> now, size_kb |-> data, launch_window_utc |-> now,
     status |-> "PACKAGED_FOR_LAUNCH"]

\* The body upload_job returns.
UploadResponse(manifest) ==
    [status |-> 200,
     message |-> "Job Accepted. Data Shuttle Manifest Created.",
     manifest |-> manifest,
     next_step |-> "Monitor logs for Launch and Uplink Telemetry."]

\* POST /upload_job arrives and suspends in package_payload's sleep(0.5).
\* Submissions are numbered in arrival order.
UploadJob(j, job) ==
    /\ ground_pc[j] = "idle"
    /\ j > 1 => ground_pc[j - 1] # "idle"
    /\ job_req' = [job_req EXCEPT ![j] = job]
    /\ ground_pc' = [ground_pc EXCEPT ![j] = "packaging"]
    /\ UNCHANGED <<clock, upload_resp, ground_log>>
    /\ UNCHANGED <<engineVars, uplinkVars, nodeVars>>
    /\ ProbesConsumed

\* UploadJobRespond, but upload_job awaits the launch task instead of
\* handing it to background_tasks: nothing is returned at this point.
UploadJobRespondAwaiting(j, now) ==
    /\ ground_pc[j] = "packaging"
    /\ now >= clock
    /\ clock' = now
    /\ ground_pc' = [ground_pc EXCEPT ![j] = "launch_wait"]
    /\ UNCHANGED <<job_req, ground_log, upload_resp>>
    /\ UNCHANGED <<engineVars, uplinkVars, nodeVars>>
    /\ ProbesConsumed

\* package_payload returns at wall-clock second now; upload_job adds the
\* launch task to background_tasks and returns. The task starts only after
\* the response is sent, in its sleep(MIN_LAUNCH_DELAY_SECONDS).
UploadJobRespond(j, now) ==
    /\ ground_pc[j] = "packaging"
    /\ now >= clock
    /\ clock' = now
    /\ upload_resp' = [upload_resp EXCEPT ![j] =
           UploadResponse(PackagePayload(job_req[j].dataset_snippet, now))]
    /\ ground_pc' = [ground_pc EXCEPT ![j] = "launch_wait"]
    /\ UNCHANGED <<job_req, ground_log>>
    /\ UNCHANGED <<engineVars, uplinkVars, nodeVars>>
    /\ ProbesConsumed

\* _execute_launch_protocol after the launch delay: client.post(/transmit).
\* Either the request reaches the uplink, or the connection fails and the
\* except clause prints the failure and the task ends.
LaunchTransmit(j, reachable) ==
    /\ ground_pc[j] = "launch_wait"
    /\ IF reachable
       THEN /\ ground_pc' = [ground_pc EXCEPT ![j] = "transmitting"]
            /\ transmit_calls' = [transmit_calls EXCEPT ![j] = @ + 1]
            /\ uplink_pc' = [uplink_pc EXCEPT ![j] = "received"]
            /\ UNCHANGED ground_log
       ELSE /\ ground_pc' = [ground_pc EXCEPT ![j] = "done"]
            /\ ground_log' = [ground_log EXCEPT ![j] =
                   [kind |-> "failure", status |-> 0]]
            /\ UNCHANGED <<transmit_calls, uplink_pc>>
    /\ UNCHANGED <<clock, job_req, upload_resp>>
    /\ UNCHANGED <<uplink_delay, uplink_resp>>
    /\ UNCHANGED <<engineVars, nodeVars>>
    /\ ProbesConsumed

\* The 30 s timeout of the ground-to-uplink call expires before the uplink
\* answered: httpx raises, the except clause prints the failure.
LaunchTimeout(j) ==
    /\ ground_pc[j] = "transmitting"
    /\ uplink_pc[j] # "done"
    /\ ground_pc' = [ground_pc EXCEPT ![j] = "done"]
    /\ ground_log' = [ground_log EXCEPT ![j] = [kind |-> "failure", status |-> 0]]
    /\ UNCHANGED <<clock, job_req, upload_resp>>
    /\ UNCHANGED <<engineVars, uplinkVars, nodeVars>>
    /\ ProbesConsumed

\* LaunchReceive, but a 502 or 504 answer makes the task post again.
LaunchReceiveRetry(j) ==
    /\ ground_pc[j] = "transmitting"
    /\ uplink_pc[j] = "done"
    /\ IF uplink_resp[j].status \in {502, 504}
       THEN /\ transmit_calls' = [transmit_calls EXCEPT ![j] = @ + 1]
            /\ uplink_pc' = [uplink_pc EXCEPT ![j] = "received"]
            /\ uplink_resp' = [uplink_resp EXCEPT ![j] = NoResp]
            /\ UNCHANGED <<ground_pc, ground_log>>
       ELSE /\ ground_pc' = [ground_pc EXCEPT ![j] = "done"]
            /\ ground_log' = [ground_log EXCEPT ![j] =
                   IF uplink_resp[j].status = 500
                   THEN [kind |-> "failure", status |-> uplink_resp[j].status]
                   ELSE [kind |-> "telemetry", status |-> uplink_resp[j].status]]
            /\ UNCHANGED <<transmit_calls, uplink_pc, uplink_resp>>
    /\ UNCHANGED <<clock, job_req, upload_resp, uplink_delay>>
    /\ UNCHANGED <<engineVars, nodeVars>>
    /\ ProbesConsumed

\* The uplink's answer arrives: the task prints response.status_code, then
\* response.json(). The body of a 500 is not JSON: json() raises and the
\* except clause prints the failure instead.
LaunchReceive(j) ==
    /\ ground_pc[j] = "transmitting"
    /\ uplink_pc[j] = "done"
    /\ ground_pc' = [ground_pc EXCEPT ![j] = "done"]
    /\ ground_log' = [ground_log EXCEPT ![j] =
           IF uplink_resp[j].status = 500
           THEN [kind |-> "failure", status |-> uplink_resp[j].status]
           ELSE [kind |-> "telemetry", status |-> uplink_resp[j].status]]
    /\ UNCHANGED <<clock, job_req, upload_resp>>
    /\ UNCHANGED <<engineVars, uplinkVars, nodeVars>>
    /\ ProbesConsumed

\* ------------------------------------------------- uplink service (8001)
InexactLatencies == {1001, 1003, 1005, 1007, 1009, 1011, 1013, 1015, 1017,
                     1019, 1021, 1023}

\* latency_added_ms = delay * 1000 with delay = ms / 1000.0, in doubles:
\* the whole milliseconds and the error in units in the last place.
LatencyAddedMs(ms) ==
    [ms |-> ms, ulp |-> IF ms \in InexactLatencies THEN -1 ELSE 0]

LinkLost == [status |-> 504, detail |-> "UPLINK ERROR: Loss of Signal (LOS)"]
NodeUnreachable == [status |-> 502, detail |-> "ORBITAL UNREACHABLE"]
ServerError == [status |-> 500]

\* The JSON body of a node answer, response.json().
JsonBody(resp) ==
    IF resp.status = 200
    THEN [result |-> resp.result, telemetry |-> resp.telemetry]
    ELSE [detail |-> resp.detail]

\* What transmit_packet answers once client.post returned resp. No status
\* check is made on resp (raise_for_status is never called, so the
\* HTTPStatusError clause cannot run): every JSON answer is wrapped as
\* DELIVERED; a body that is not JSON makes json() raise, a 500.
Delivered(delay, resp) ==
    IF resp.status = 500
    THEN ServerError
    ELSE [status |-> 200,
          uplink_telemetry |-> [latency_added_ms |-> LatencyAddedMs(delay),
                                status |-> "DELIVERED"],
          satellite_response |-> JsonBody(resp)]

\* TransmitPacket, but the loss is applied to the answer only: a lost
\* packet has been forwarded to the node all the same.
TransmitPacketLossLast(j, lost, latency) ==
    /\ uplink_pc[j] = "received"
    /\ IF lost
       THEN /\ uplink_resp' = [uplink_resp EXCEPT ![j] = LinkLost]
            /\ uplink_pc' = [uplink_pc EXCEPT ![j] = "done"]
            /\ process_calls' = [process_calls EXCEPT ![j] = @ + 1]
            /\ node_pc' = [node_pc EXCEPT ![j] = "received"]
            /\ UNCHANGED uplink_delay
       ELSE /\ uplink_delay' = [uplink_delay EXCEPT ![j] = latency]
            /\ uplink_pc' = [uplink_pc EXCEPT ![j] = "sleeping"]
            /\ UNCHANGED <<uplink_resp, process_calls, node_pc>>
    /\ UNCHANGED <<transmit_calls, node_resp, job_ticks>>
    /\ UNCHANGED <<engineVars, groundVars>>
    /\ ProbesConsumed

\* transmit_packet up to its sleep: the loss draw first, then the latency.
TransmitPacket(j, lost, latency) ==
    /\ uplink_pc[j] = "received"
    /\ IF lost
       THEN /\ uplink_resp' = [uplink_resp EXCEPT ![j] = LinkLost]
            /\ uplink_pc' = [uplink_pc EXCEPT ![j] = "done"]
            /\ UNCHANGED uplink_delay
       ELSE /\ uplink_delay' = [uplink_delay EXCEPT ![j] = latency]
            /\ uplink_pc' = [uplink_pc EXCEPT ![j] = "sleeping"]
            /\ UNCHANGED uplink_resp
    /\ UNCHANGED transmit_calls
    /\ UNCHANGED <<engineVars, groundVars, nodeVars>>
    /\ ProbesConsumed

\* The sleep is over: client.post(/process_job). Either the request reaches
\* the node, or the connection fails (httpx.RequestError), a 502.
ForwardToNode(j, reachable) ==
    /\ uplink_pc[j] = "sleeping"
    /\ IF reachable
       THEN /\ uplink_pc' = [uplink_pc EXCEPT ![j] = "forwarding"]
            /\ process_calls' = [process_calls EXCEPT ![j] = @ + 1]
            /\ node_pc' = [node_pc EXCEPT ![j] = "received"]
            /\ UNCHANGED uplink_resp
       ELSE /\ uplink_pc' = [uplink_pc EXCEPT ![j] = "done"]
            /\ uplink_resp' = [uplink_resp EXCEPT ![j] = NodeUnreachable]
            /\ UNCHANGED <<process_calls, node_pc>>
    /\ uplink_delay' = [uplink_delay EXCEPT ![j] = IF reachable THEN @ ELSE 0]
    /\ UNCHANGED <<transmit_calls, node_resp, job_ticks>>
    /\ UNCHANGED <<engineVars, groundVars>>
    /\ ProbesConsumed

\* ForwardTimeout, but giving up the call also cancels the request on the
\* node: the body is abandoned and no execution tick is applied.
ForwardTimeoutCancelling(j) ==
    /\ uplink_pc[j] = "forwarding"
    /\ node_pc[j] = "executing"
    /\ uplink_pc' = [uplink_pc EXCEPT ![j] = "done"]
    /\ uplink_resp' = [uplink_resp EXCEPT ![j] = NodeUnreachable]
    /\ uplink_delay' = [uplink_delay EXCEPT ![j] = 0]
    /\ node_pc' = [node_pc EXCEPT ![j] = "done"]
    /\ node_resp' = [node_resp EXCEPT ![j] = ServerError]
    /\ UNCHANGED <<transmit_calls, process_calls, job_ticks>>
    /\ UNCHANGED <<engineVars, groundVars>>
    /\ ProbesConsumed

\* The 10 s timeout of the link-to-node call expires while the job body is
\* still running: httpx.ReadTimeout is a RequestError, a 502. The node is
\* not told and goes on.
ForwardTimeout(j) ==
    /\ uplink_pc[j] = "forwarding"
    /\ node_pc[j] = "executing"
    /\ uplink_pc' = [uplink_pc EXCEPT ![j] = "done"]
    /\ uplink_resp' = [uplink_resp EXCEPT ![j] = NodeUnreachable]
    /\ uplink_delay' = [uplink_delay EXCEPT ![j] = 0]
    /\ UNCHANGED transmit_calls
    /\ UNCHANGED <<engineVars, groundVars, nodeVars>>
    /\ ProbesConsumed

\* The node's answer arrives at the uplink.
ForwardReceive(j) ==
    /\ uplink_pc[j] = "forwarding"
    /\ node_pc[j] = "done"
    /\ uplink_pc' = [uplink_pc EXCEPT ![j] = "done"]
    /\ uplink_resp' = [uplink_resp EXCEPT ![j] =
           Delivered(uplink_delay[j], node_resp[j])]
    /\ uplink_delay' = [uplink_delay EXCEPT ![j] = 0]
    /\ UNCHANGED transmit_calls
    /\ UNCHANGED <<engineVars, groundVars, nodeVars>>
    /\ ProbesConsumed

\* --------------------------------------------------- orbital node (8002)
\* Measured durations of the mock branch, which never suspends.
MockDurations == {0}

\* HTTPException(503, detail=f"THERMAL THROTTLING ACTIVE: {str(e)}").
ThermalUnavailable(err) ==
    [status |-> 503,
     detail |-> [prefix |-> "THERMAL THROTTLING ACTIVE",
                 temp_c |-> err.temp_c, limit_c |-> err.limit_c]]

\* Admitted, but the exception of the idle tick is swallowed.
AdmittedAlways(err) == TRUE

\* The try/except around the idle tick: the job goes on only if the tick
\* returned normally.
Admitted(err) == ~err.raised

\* str(result) of kernel.invoke, or the text of the except clause.
KernelText(ok, payload) ==
    IF ok THEN [kind |-> "summary", chars |-> payload.data]
    ELSE [kind |-> "ai_error", chars |-> 0]

\* f"[MOCK KERNEL] Processed: {payload.data[:50]}...".
MockText(payload) ==
    [kind |-> "mock",
     chars |-> IF payload.data < MOCK_PREFIX_CHARS
               THEN payload.data ELSE MOCK_PREFIX_CHARS]

\* if duration < 0.1: duration = 0.5
EffectiveDuration(d) == IF d < MIN_VISIBLE_DURATION THEN FLOOR_DURATION ELSE d

\* The body process_job returns.
JobResponse(text, duration, temp_k) ==
    [status |-> 200, result |-> text,
     telemetry |-> [execution_time |-> duration,
                    final_temp_c |-> CurrentTempC(temp_k),
                    thermal_status |-> "NOMINAL"]]

\* What a request remembers of a tick it applied.
JobTick(phase, load, dt, r) ==
    [phase |-> phase, load |-> load, dt |-> dt, raised |-> r.error.raised]

\* What a request remembers of its execution tick: also the duration it
\* measured, time.time() - start_time, before the floor was applied.
ExecTick(load, dt, measured, r) ==
    [phase |-> "exec", load |-> load, dt |-> dt, raised |-> r.error.raised,
     measured |-> measured]

\* The engine after one tick by request j (0: a direct caller), applied
\* to the engine as the caller finds it.
ApplyTick(j, phase, r, load, dt) ==
    /\ current_temp_k' = r.temp
    /\ last_tick' = TickEntry(j, phase, load, dt, current_temp_k, r)
    /\ tick_count' = tick_count + 1

\* ApplyConsequences, but final_temp_c is the temperature read before the
\* execution tick.
ApplyConsequencesStale(j, text, d, temp_k, ticks) ==
    \E duration \in {EffectiveDuration(d)} :
    \E r \in {Tick(config, temp_k, SIMULATED_LOAD_WATTS, duration)} :
        /\ current_temp_k' = r.temp
        /\ last_tick' = TickEntry(j, "exec", SIMULATED_LOAD_WATTS, duration,
                                  temp_k, r)
        /\ job_ticks' = [job_ticks EXCEPT ![j] =
               Append(ticks, ExecTick(SIMULATED_LOAD_WATTS, duration, d, r))]
        /\ node_resp' = [node_resp EXCEPT ![j] =
               IF r.error.raised THEN ServerError
               ELSE JobResponse(text, duration, temp_k)]
        /\ node_pc' = [node_pc EXCEPT ![j] = "done"]

\* Part 3 of process_job, entered with the engine at temp_k by a request
\* that has applied ticks so far: the execution tick over the measured
\* duration. Nothing catches the exception of this tick: the framework
\* answers 500 and the result text is dropped with the frame.
ApplyConsequences(j, text, d, temp_k, ticks) ==
    \E duration \in {EffectiveDuration(d)} :
    \E r \in {Tick(config, temp_k, SIMULATED_LOAD_WATTS, duration)} :
        /\ current_temp_k' = r.temp
        /\ last_tick' = TickEntry(j, "exec", SIMULATED_LOAD_WATTS, duration,
                                  temp_k, r)
        /\ job_ticks' = [job_ticks EXCEPT ![j] =
               Append(ticks, ExecTick(SIMULATED_LOAD_WATTS, duration, d, r))]
        /\ node_resp' = [node_resp EXCEPT ![j] =
               IF r.error.raised THEN ServerError
               ELSE JobResponse(text, duration, r.temp)]
        /\ node_pc' = [node_pc EXCEPT ![j] = "done"]

\* process_job from its start to its first suspension or its end: the idle
\* tick, the rejection if it raised; with a kernel, the suspension in
\* kernel.invoke; without one, the mock text and part 3 in the same step.
ProcessJob(j, d) ==
    /\ node_pc[j] = "received"
    /\ \E r \in {Tick(config, current_temp_k, IDLE_LOAD_WATTS, IDLE_DT_SECONDS)} :
           IF ~Admitted(r.error)
           THEN /\ ApplyTick(j, "idle", r, IDLE_LOAD_WATTS, IDLE_DT_SECONDS)
                /\ job_ticks' = [job_ticks EXCEPT ![j] =
                       <<JobTick("idle", IDLE_LOAD_WATTS, IDLE_DT_SECONDS, r)>>]
                /\ node_resp' = [node_resp EXCEPT ![j] = ThermalUnavailable(r.error)]
                /\ node_pc' = [node_pc EXCEPT ![j] = "done"]
           ELSE IF kernel_ok
           THEN /\ ApplyTick(j, "idle", r, IDLE_LOAD_WATTS, IDLE_DT_SECONDS)
                /\ job_ticks' = [job_ticks EXCEPT ![j] =
                       <<JobTick("idle", IDLE_LOAD_WATTS, IDLE_DT_SECONDS, r)>>]
                /\ node_pc' = [node_pc EXCEPT ![j] = "executing"]
                /\ UNCHANGED node_resp
           ELSE /\ ApplyConsequences(j, MockText(UplinkPayload(j)), d, r.temp,
                       <<JobTick("idle", IDLE_LOAD_WATTS, IDLE_DT_SECONDS, r)>>)
                /\ tick_count' = tick_count + 2
    /\ UNCHANGED <<config, kernel_ok, process_calls>>
    /\ UNCHANGED <<groundVars, uplinkVars>>
    /\ ProbesConsumed

\* The uplink's read timeout has expired for job j.
TimedOut(j) == uplink_pc[j] # "forwarding"

\* ProcessJobComplete, but the execution tick starts from the temperature
\* the latest tick read, not from the one it wrote back.
ProcessJobCompleteRacy(j, ok, d) ==
    /\ node_pc[j] = "executing"
    /\ (d > NODE_TIMEOUT) <=> TimedOut(j)
    /\ ApplyConsequences(j, KernelText(ok, UplinkPayload(j)), d,
                         last_tick.pre, job_ticks[j])
    /\ tick_count' = tick_count + 1
    /\ UNCHANGED <<config, kernel_ok, process_calls>>
    /\ UNCHANGED <<groundVars, uplinkVars>>
    /\ ProbesConsumed

\* ProcessJobComplete, but an exception of kernel.invoke is not caught: the
\* request ends with a 500 before part 3.
ProcessJobCompleteAbort(j, ok, d) ==
    /\ node_pc[j] = "executing"
    /\ (d > NODE_TIMEOUT) <=> TimedOut(j)
    /\ IF ok
       THEN /\ ApplyConsequences(j, KernelText(ok, UplinkPayload(j)), d,
                                 current_temp_k, job_ticks[j])
            /\ tick_count' = tick_count + 1
       ELSE /\ node_resp' = [node_resp EXCEPT ![j] = ServerError]
            /\ node_pc' = [node_pc EXCEPT ![j] = "done"]
            /\ UNCHANGED <<current_temp_k, last_tick, tick_count, job_ticks>>
    /\ UNCHANGED <<config, kernel_ok, process_calls>>
    /\ UNCHANGED <<groundVars, uplinkVars>>
    /\ ProbesConsumed

\* kernel.invoke returned (ok) or raised (~ok) after d of wall-clock time;
\* the uplink's 10 s timeout has expired by then exactly if d exceeds it.
ProcessJobComplete(j, ok, d) ==
    /\ node_pc[j] = "executing"
    /\ (d > NODE_TIMEOUT) <=> TimedOut(j)
    /\ ApplyConsequences(j, KernelText(ok, UplinkPayload(j)), d,
                         current_temp_k, job_ticks[j])
    /\ tick_count' = tick_count + 1
    /\ UNCHANGED <<config, kernel_ok, process_calls>>
    /\ UNCHANGED <<groundVars, uplinkVars>>
    /\ ProbesConsumed

\* ---------------------------------------------------- read-only endpoints
CRITICAL_HEAT_K == 353150000
DASHBOARD_TEMP_C == 20000000
DASHBOARD_TEMP_K == 293150000
DASHBOARD_COOLING_WATTS == 385000
OFFLINE_TEMP_K == 273150000

\* NodeTelemetry, but the temperature is the one the engine was built with
\* (a value cached at start-up), not the one it holds now.
NodeTelemetryCached(cfg, temp_k) ==
    [status |-> 200,
     body |-> [temp_c |-> CurrentTempC(cfg.initial_temp_k),
               temp_k |-> cfg.initial_temp_k,
               status |-> IF cfg.initial_temp_k < CRITICAL_HEAT_K
                          THEN "NOMINAL" ELSE "CRITICAL_HEAT",
               cooling_capacity_watts |->
                   CalculateRejectionWatts(cfg, cfg.initial_temp_k)]]

\* The body of the node's GET /telemetry for an engine at temp_k. The
\* status compares with the literal 353.15, not with config.max_temp_k.
NodeTelemetry(cfg, temp_k) ==
    [status |-> 200,
     body |-> [temp_c |-> CurrentTempC(temp_k),
               temp_k |-> temp_k,
               status |-> IF temp_k < CRITICAL_HEAT_K
                          THEN "NOMINAL" ELSE "CRITICAL_HEAT",
               cooling_capacity_watts |-> CalculateRejectionWatts(cfg, temp_k)]]

\* GET /telemetry on the orbital node: no await, nothing is written.
NodeGetTelemetry ==
    /\ NoAnswerPending
    /\ telemetry_resp' = NodeTelemetry(config, current_temp_k)
    /\ dashboard_resp' = NoResp
    /\ chain_probed' = NoProbe
    /\ watts_out' = NoReading
    /\ UNCHANGED <<engineVars, groundVars, uplinkVars, nodeVars>>

\* GET /health on the uplink: a fixed acknowledgment; the node is not asked.
HealthCheck == [status |-> 200, body |-> "LINK_ESTABLISHED"]

DashboardConnected ==
    [status |-> 200,
     body |-> [temp_c |-> DASHBOARD_TEMP_C, temp_k |-> DASHBOARD_TEMP_K,
               status |-> "NOMINAL",
               cooling_capacity_watts |-> DASHBOARD_COOLING_WATTS,
               uplink_status |-> "CONNECTED"]]

DashboardOffline ==
    [status |-> 200,
     body |-> [temp_c |-> 0, temp_k |-> OFFLINE_TEMP_K, status |-> "OFFLINE",
               cooling_capacity_watts |-> 0, uplink_status |-> "DISCONNECTED"]]

\* GET /api/telemetry on the ground station, asked while the uplink and the
\* node are reachable or not: client.get(/health) on the uplink; a 200 gives
\* the fixed nominal body, anything else (also an exception of the call,
\* which is swallowed) the fixed offline body.
GroundGetTelemetry(uplink_up, node_up) ==
    /\ NoAnswerPending
    /\ dashboard_resp' =
           IF uplink_up /\ HealthCheck.status = 200
           THEN DashboardConnected ELSE DashboardOffline
    /\ chain_probed' = [uplink |-> uplink_up, node |-> node_up]
    /\ telemetry_resp' = NoResp
    /\ watts_out' = NoReading
    /\ UNCHANGED <<engineVars, groundVars, uplinkVars, nodeVars>>

\* --------------------------------------------------------- specifications
Next ==
    \/ \E j \in Jobs, job \in JobInputs : UploadJob(j, job)
    \/ \E j \in Jobs, now \in 0..MaxClock : UploadJobRespond(j, now)
    \/ \E j \in Jobs, reachable \in BOOLEAN : LaunchTransmit(j, reachable)
    \/ \E j \in Jobs : LaunchTimeout(j)
    \/ \E j \in Jobs : LaunchReceive(j)
    \/ \E j \in Jobs, lost \in BOOLEAN, latency \in Latencies :
           TransmitPacket(j, lost, latency)
    \/ \E j \in Jobs, reachable \in BOOLEAN : ForwardToNode(j, reachable)
    \/ \E j \in Jobs : ForwardTimeout(j)
    \/ \E j \in Jobs : ForwardReceive(j)
    \/ \E j \in Jobs, d \in MockDurations : ProcessJob(j, d)
    \/ \E j \in Jobs, ok \in BOOLEAN, d \in Durations : ProcessJobComplete(j, ok, d)

Spec == Init /\ [][Next]_vars

\* The same services when every job body takes at most 10 s, so that the
\* uplink's read timeout never expires on a running job.
ShortDurations == {0, 300, NODE_TIMEOUT}

ShortJobNext ==
    \/ \E j \in Jobs, job \in JobInputs : UploadJob(j, job)
    \/ \E j \in Jobs, now \in 0..MaxClock : UploadJobRespond(j, now)
    \/ \E j \in Jobs, reachable \in BOOLEAN : LaunchTransmit(j, reachable)
    \/ \E j \in Jobs : LaunchTimeout(j)
    \/ \E j \in Jobs : LaunchReceive(j)
    \/ \E j \in Jobs, lost \in BOOLEAN, latency \in Latencies :
           TransmitPacket(j, lost, latency)
    \/ \E j \in Jobs, reachable \in BOOLEAN : ForwardToNode(j, reachable)
    \/ \E j \in Jobs : ForwardReceive(j)
    \/ \E j \in Jobs, d \in MockDurations : ProcessJob(j, d)
    \/ \E j \in Jobs, ok \in BOOLEAN, d \in ShortDurations :
           ProcessJobComplete(j, ok, d)

ShortJobSpec == Init /\ [][ShortJobNext]_vars

\* The same services while their read-only endpoints are polled as well.
TelemetryNext ==
    \/ Next
    \/ NodeGetTelemetry
    \/ \E uplink_up, node_up \in BOOLEAN : GroundGetTelemetry(uplink_up, node_up)

TelemetrySpec == Init /\ [][TelemetryNext]_vars

\* The engine driven directly, as test_thermal.py drives it: a
\* RadiatorSystem built from a given ThermalConfig and ticked by its caller.
TickInit ==
    /\ config \in {DefaultConfig, SmallMassConfig, ColdStartConfig}
    /\ current_temp_k = config.initial_temp_k
    /\ last_tick = NoTick
    /\ tick_count = 0
    /\ kernel_ok = FALSE
    /\ PipelineInit

EngineTick(load, dt) ==
    /\ tick_count < MaxTicks
    /\ \E r \in {Tick(config, current_temp_k, load, dt)} :
           ApplyTick(0, "direct", r, load, dt)
    /\ UNCHANGED <<config, kernel_ok>>
    /\ UNCHANGED <<groundVars, uplinkVars, nodeVars>>
    /\ ProbesConsumed

\* math.isclose(a, b, rel_tol=...), the tolerance in percent.
EXPECTED_WATTS == 385240
REL_TOL_PERCENT == 1

IsClose(a, b, rel_tol_percent) ==
    100 * Abs(a - b) <=
        rel_tol_percent * (IF Abs(a) >= Abs(b) THEN Abs(a) ELSE Abs(b))

\* watts_out = radiator.calculate_rejection_watts(), called directly.
ReadRejection ==
    /\ NoAnswerPending
    /\ watts_out' = [temp_k |-> current_temp_k,
                     watts |-> CalculateRejectionWatts(config, current_temp_k)]
    /\ telemetry_resp' = NoResp
    /\ dashboard_resp' = NoResp
    /\ chain_probed' = NoProbe
    /\ UNCHANGED <<engineVars, groundVars, uplinkVars, nodeVars>>

TickNext ==
    \/ \E load \in TickLoads, dt \in TickSteps : EngineTick(load, dt)
    \/ ReadRejection

TickSpec == TickInit /\ [][TickNext]_vars

\* test_overheating_trip: a RadiatorSystem of 10 kg ticked with 5000 W for
\* 1 s at a time, at most 1000 times; the exception of a tick leaves the
\* loop. The loop is sequential code: it goes on while it can.
TRIP_TEST_LOAD_WATTS == 5000000
TRIP_TEST_DT_SECONDS == 1000
TRIP_TEST_RANGE == 1000

TripInit ==
    /\ config = SmallMassConfig
    /\ current_temp_k = config.initial_temp_k
    /\ last_tick = NoTick
    /\ tick_count = 0
    /\ kernel_ok = FALSE
    /\ PipelineInit

TripLoopTick ==
    /\ tick_count < TRIP_TEST_RANGE
    /\ ~last_tick.error.raised
    /\ \E r \in {Tick(config, current_temp_k, TRIP_TEST_LOAD_WATTS,
                       TRIP_TEST_DT_SECONDS)} :
           ApplyTick(0, "direct", r, TRIP_TEST_LOAD_WATTS, TRIP_TEST_DT_SECONDS)
    /\ UNCHANGED <<config, kernel_ok>>
    /\ UNCHANGED <<groundVars, uplinkVars, nodeVars>>
    /\ ProbesConsumed

TripSpec == TripInit /\ [][TripLoopTick]_vars /\ WF_vars(TripLoopTick)

\* ----------------------------------------------------------------- claims
ThermalMass == config.mass_kg * config.specific_heat_j_kg_k

IsIdleTick(t) ==
    t.phase = "idle" /\ t.load = IDLE_LOAD_WATTS /\ t.dt = IDLE_DT_SECONDS

\* C1: every process_job request applies the idle tick (50 W, 1 s) before
\* anything else; a request whose idle tick tripped is answered 503 with the
\* trip detail, never executes its body and applies no execution tick; a
\* body is executing only if its own idle tick did not trip.
C1_AdmissionGate ==
    \A j \in Jobs :
        /\ node_pc[j] \in {"none", "received"} => job_ticks[j] = <<>>
        /\ node_pc[j] \in {"executing", "done"} =>
               Len(job_ticks[j]) >= 1 /\ IsIdleTick(job_ticks[j][1])
        /\ node_pc[j] = "executing" =>
               Len(job_ticks[j]) = 1 /\ ~job_ticks[j][1].raised
        /\ (Len(job_ticks[j]) >= 1 /\ job_ticks[j][1].raised) =>
               /\ node_pc[j] = "done"
               /\ Len(job_ticks[j]) = 1
               /\ node_resp[j].status = 503
               /\ node_resp[j].detail.prefix = "THERMAL THROTTLING ACTIVE"
               /\ node_resp[j].detail.limit_c = config.max_temp_k - KELVIN_OFFSET
               /\ node_resp[j].detail.temp_c >= Format2f(node_resp[j].detail.limit_c)
        /\ node_resp[j].status = 503 => job_ticks[j][1].raised

\* C1 witness: a request has been rejected with 503 by its idle tick.
C1_Rejected ==
    \E j \in Jobs : node_resp[j].status = 503 /\ job_ticks[j][1].raised

\* C2 (as claimed): every answer of process_job is a success body or a 503,
\* and an execution tick that tripped is answered with a success body that
\* holds the result and a thermal_status other than NOMINAL.
C2_TripSurfacedInSuccessBody ==
    \A j \in Jobs :
        node_pc[j] = "done" =>
            /\ node_resp[j].status \in {200, 503}
            /\ (Len(job_ticks[j]) = 2 /\ job_ticks[j][2].raised) =>
                   /\ node_resp[j].status = 200
                   /\ node_resp[j].result.kind # "none"
                   /\ node_resp[j].telemetry.thermal_status # "NOMINAL"

\* C3: a tick stores temp + (load - rejection(temp)) * dt / (mass * c)
\* before it checks the limit; at or above the limit it raises an error that
\* reports the stored temperature in Celsius and the limit, and the stored
\* temperature stays (no rollback).
C3_TickCommitsBeforeCheck ==
    tick_count > 0 =>
        LET expected == last_tick.pre
                + MulDivRound(last_tick.load
                                - CalculateRejectionWatts(config, last_tick.pre),
                              last_tick.dt, ThermalMass)
        IN  /\ current_temp_k = expected
            /\ expected >= config.max_temp_k =>
                   /\ last_tick.error.raised
                   /\ last_tick.error.temp_c = Format2f(current_temp_k - KELVIN_OFFSET)
                   /\ last_tick.error.limit_c = config.max_temp_k - KELVIN_OFFSET

\* C3 witness: the latest tick raised and the engine holds its update.
C3_TripCommitted ==
    /\ tick_count > 0
    /\ last_tick.error.raised
    /\ current_temp_k >= config.max_temp_k
    /\ current_temp_k # last_tick.pre

\* C4 (as claimed): a 503 of the node is answered by transmit_packet with
\* the same status and the rejection's detail, never as a delivery.
C4_RejectionPassedThrough ==
    \A j \in Jobs :
        (uplink_pc[j] = "done" /\ node_resp[j].status = 503) =>
            /\ uplink_resp[j].status = 503
            /\ uplink_resp[j].detail = node_resp[j].detail

\* C5: upload_job answers {manifest, message} after packaging alone: no
\* /transmit exists before the answer, the answer is there while the launch
\* delay runs, and it is a function of the request and the packaging time
\* only, whatever the detached task meets.
C5_FireAndForget ==
    \A j \in Jobs :
        /\ ground_pc[j] \in {"idle", "packaging"} =>
               /\ upload_resp[j] = NoResp
               /\ transmit_calls[j] = 0
               /\ uplink_pc[j] = "none"
               /\ ground_log[j].kind = "none"
        /\ ground_pc[j] = "launch_wait" => transmit_calls[j] = 0
        /\ ground_pc[j] \notin {"idle", "packaging"} =>
               /\ upload_resp[j].status = 200
               /\ upload_resp[j] = UploadResponse(PackagePayload(
                      job_req[j].dataset_snippet,
                      upload_resp[j].manifest.payload_id))

\* C5 witness: the detached task of an accepted job has ended in a failure.
C5_DetachedFailure ==
    \E j \in Jobs :
        /\ ground_pc[j] = "done"
        /\ ground_log[j].kind = "failure"
        /\ upload_resp[j].status = 200

\* C6: every tick reads the temperature the tick before it wrote: each step
\* that ticks moves current_temp_k by that tick's update of the temperature
\* of the state it started in, and no other step changes it.
C6_TicksSerialized ==
    [][ /\ tick_count' = tick_count => current_temp_k' = current_temp_k
        /\ tick_count' = tick_count + 1 =>
               /\ last_tick'.pre = current_temp_k
               /\ current_temp_k' = TickTemp(config, current_temp_k,
                                             last_tick'.load, last_tick'.dt)
        /\ tick_count' = tick_count + 2 =>
               /\ last_tick'.pre = TickTemp(config, current_temp_k,
                                            IDLE_LOAD_WATTS, IDLE_DT_SECONDS)
               /\ current_temp_k' = TickTemp(config, last_tick'.pre,
                                             last_tick'.load, last_tick'.dt)
        /\ tick_count' \in {tick_count, tick_count + 1, tick_count + 2} ]_vars

\* C6 witness: an execution tick took effect while another request, past its
\* own idle tick, is suspended in its body.
C6_Interleaved ==
    \E j, k \in Jobs :
        /\ j # k
        /\ last_tick.job = j
        /\ last_tick.phase = "exec"
        /\ node_pc[k] = "executing"

\* C7: a lost transmission is answered 504 at once: no latency was drawn or
\* slept, nothing was forwarded, no process_job request exists for the job
\* and the job has applied no tick to the engine.
C7_LossDecidedFirst ==
    \A j \in Jobs :
        uplink_resp[j].status = 504 =>
            /\ uplink_resp[j] = LinkLost
            /\ uplink_delay[j] = 0
            /\ process_calls[j] = 0
            /\ node_pc[j] = "none"
            /\ job_ticks[j] = <<>>

\* C7 witness: a transmission has been lost.
C7_Lost == \E j \in Jobs : uplink_pc[j] = "done" /\ uplink_resp[j] = LinkLost

\* C8: at most one /transmit per submission and one /process_job per
\* /transmit; a 504, a 502 or a timed-out hop ends the job, which is logged
\* and not sent again.
C8_SingleAttempt ==
    \A j \in Jobs :
        /\ transmit_calls[j] <= 1
        /\ process_calls[j] <= transmit_calls[j]
        /\ uplink_resp[j].status \in {502, 504} => uplink_pc[j] = "done"
        /\ ground_pc[j] = "done" => ground_log[j].kind \in {"failure", "telemetry"}
        /\ ground_log[j].kind # "none" => ground_pc[j] = "done"

\* C8 witness: a job has ended at the ground after a 502 or a 504.
C8_TerminalFailure ==
    \E j \in Jobs :
        /\ ground_pc[j] = "done"
        /\ uplink_resp[j].status \in {502, 504}
        /\ transmit_calls[j] = 1

\* C9: a tick raises exactly if the temperature after its own update is at
\* or above the limit, whatever the temperature it started from.
C9_TripNotLatched ==
    tick_count > 0 =>
        (last_tick.error.raised <=> last_tick.post >= config.max_temp_k)

\* C9 witness: a tick on an engine over the limit returned normally.
C9_Recovered ==
    /\ tick_count > 0
    /\ last_tick.pre >= config.max_temp_k
    /\ last_tick.post < config.max_temp_k
    /\ ~last_tick.error.raised

\* C10: a request that was admitted always applies its execution tick
\* (500 W over the measured duration): a failure of kernel.invoke becomes a
\* result text, and only a tripping execution tick makes the answer a 500.
C10_ExecutionFailureRecovered ==
    \A j \in Jobs :
        (node_pc[j] = "done" /\ node_resp[j].status # 503) =>
            /\ Len(job_ticks[j]) = 2
            /\ job_ticks[j][2].phase = "exec"
            /\ job_ticks[j][2].load = SIMULATED_LOAD_WATTS
            /\ node_resp[j].status = 500 => job_ticks[j][2].raised
            /\ node_resp[j].status = 200 =>
                   /\ node_resp[j].result.kind \in {"summary", "ai_error", "mock"}
                   /\ job_ticks[j][2].dt = node_resp[j].telemetry.execution_time

\* C10 witness: a request whose kernel.invoke failed has been answered with
\* the degraded text after its execution tick.
C10_DegradedResult ==
    \E j \in Jobs :
        /\ node_resp[j].status = 200
        /\ node_resp[j].result.kind = "ai_error"
        /\ Len(job_ticks[j]) = 2

\* C11: the 10 kg engine ticked with 5000 W for 1 s at a time from its
\* initial temperature reaches, in fewer than 1000 ticks, a tick that raises
\* the overheat error, and the Celsius value in that error (two decimals) is
\* at or above the limit in Celsius.
C11_OverheatEventuallyTrips ==
    <>( /\ last_tick.error.raised
        /\ tick_count < TRIP_TEST_RANGE
        /\ last_tick.load = TRIP_TEST_LOAD_WATTS
        /\ last_tick.dt = TRIP_TEST_DT_SECONDS
        /\ last_tick.error.limit_c = config.max_temp_k - KELVIN_OFFSET
        /\ last_tick.error.temp_c * 10000 >= last_tick.error.limit_c )

\* C11 witness: the loop has been left by a trip after more than a hundred
\* ticks that did not trip.
C11_TrippedInLoop ==
    /\ config = SmallMassConfig
    /\ tick_count > 100
    /\ last_tick.load = TRIP_TEST_LOAD_WATTS
    /\ last_tick.error.raised
    /\ last_tick.pre < config.max_temp_k

\* C12 (as claimed): any two packaging events, also two within the same
\* wall-clock second, give manifests with different payload_id values.
C12_PayloadIdUnique ==
    \A j, k \in Jobs :
        (j # k /\ upload_resp[j].status = 200 /\ upload_resp[k].status = 200) =>
            upload_resp[j].manifest.payload_id # upload_resp[k].manifest.payload_id

\* C13 (as claimed): for every admitted job and measured duration d >= 0,
\* the dt of the execution tick and the reported execution time are
\* max(d, 0.5 s), so never below 0.5 s.
C13_DurationFlooredAtHalfSecond ==
    \A j \in Jobs :
        Len(job_ticks[j]) = 2 =>
            LET t == job_ticks[j][2]
            IN  /\ t.dt = IF t.measured < FLOOR_DURATION
                          THEN FLOOR_DURATION ELSE t.measured
                /\ t.dt >= FLOOR_DURATION
                /\ node_resp[j].status = 200 =>
                       node_resp[j].telemetry.execution_time = t.dt

\* C14: the node's telemetry read leaves the engine and the requests as they
\* are and answers from the temperature the engine holds at that moment:
\* temp_k is current_temp_k, temp_c is temp_k - 273.15, and the status is
\* CRITICAL_HEAT exactly if current_temp_k is at or above the configured
\* max_temp_k (the condition under which a tick raises), NOMINAL otherwise.
C14_TelemetryReadsLiveState ==
    [][ telemetry_resp'.status = 200 =>
            /\ UNCHANGED <<engineVars, nodeVars>>
            /\ telemetry_resp'.body.temp_k = current_temp_k
            /\ telemetry_resp'.body.temp_c = current_temp_k - KELVIN_OFFSET
            /\ telemetry_resp'.body.status =
                   IF current_temp_k >= config.max_temp_k
                   THEN "CRITICAL_HEAT" ELSE "NOMINAL" ]_vars

\* C14 witness: the read has answered CRITICAL_HEAT for an engine that a
\* tripping tick left over the limit.
C14_CriticalHeatReported ==
    /\ telemetry_resp.status = 200
    /\ telemetry_resp.body.status = "CRITICAL_HEAT"
    /\ last_tick.error.raised
    /\ current_temp_k >= config.max_temp_k

\* C15 (as claimed): the ground's telemetry read always answers, with the
\* CONNECTED summary exactly if both the uplink and the orbital node behind
\* it are reachable, and with the DISCONNECTED summary otherwise.
C15_ConnectedIffChainReachable ==
    /\ dashboard_resp.status \in {0, 200}
    /\ dashboard_resp.status = 200 =>
           IF chain_probed.uplink /\ chain_probed.node
           THEN dashboard_resp = DashboardConnected
           ELSE dashboard_resp = DashboardOffline

C17_RejectionMatchesReference ==
    [][ watts_out' # NoReading =>
            /\ UNCHANGED engineVars
            /\ watts_out'.temp_k = current_temp_k
            /\ ( /\ config.surface_area_m2 = 1
                 /\ config.emissivity = 92
                 /\ current_temp_k = 293150000 ) =>
                   IsClose(watts_out'.watts, EXPECTED_WATTS, REL_TOL_PERCENT) ]_vars

\* C17 witness: the rejection of a freshly built default engine was read.
C17_ReferenceRead ==
    /\ config = DefaultConfig
    /\ tick_count = 0
    /\ watts_out.temp_k = config.initial_temp_k
    /\ watts_out.watts > 0

\* C18 (as claimed): a transmission that is not lost draws a latency in
\* [500, 2000] ms, is forwarded to /process_job only after the sleep of that
\* latency, and a delivered answer reports the drawn latency and holds the
\* node's response body as satellite_response.
C18_LatencyDrawnSleptReported ==
    \A j \in Jobs :
        /\ uplink_pc[j] \in {"sleeping", "forwarding"} =>
               uplink_delay[j] \in MIN_LATENCY_MS..MAX_LATENCY_MS
        /\ uplink_pc[j] \in {"none", "received", "sleeping"} => process_calls[j] = 0
        /\ uplink_resp[j].status = 200 =>
               /\ uplink_resp[j].uplink_telemetry.status = "DELIVERED"
               /\ uplink_resp[j].uplink_telemetry.latency_added_ms.ms
                      \in MIN_LATENCY_MS..MAX_LATENCY_MS
               /\ uplink_resp[j].uplink_telemetry.latency_added_ms.ulp = 0
               /\ uplink_resp[j].satellite_response = JsonBody(node_resp[j])

C20_NominalIsTruthful ==
    [][ \A j \in Jobs :
            (node_resp'[j] # node_resp[j] /\ node_resp'[j].status = 200) =>
                /\ last_tick'.job = j
                /\ last_tick'.phase = "exec"
                /\ ~last_tick'.error.raised
                /\ node_resp'[j].telemetry.thermal_status = "NOMINAL"
                /\ node_resp'[j].telemetry.final_temp_c =
                       last_tick'.post - KELVIN_OFFSET
                /\ last_tick'.post = current_temp_k'
                /\ node_resp'[j].telemetry.final_temp_c <
                       config.max_temp_k - KELVIN_OFFSET ]_vars

\* C20 witness: two success bodies with different final temperatures, the
\* engine having moved on since the first.
C20_OwnTickReported ==
    \E j, k \in Jobs :
        /\ j # k
        /\ node_resp[j].status = 200
        /\ node_resp[k].status = 200
        /\ node_resp[j].telemetry.final_temp_c # node_resp[k].telemetry.final_temp_c
        /\ node_resp[j].telemetry.final_temp_c # CurrentTempC(current_temp_k)
        /\ last_tick.job = k

\* C21: the uplink's timeout on a request the node is executing answers 502
\* ORBITAL UNREACHABLE and leaves the node and the engine as they are: the
\* request has applied its idle tick, stays in its body, can still complete,
\* and when it does it applies its execution tick (500 W over the measured
\* duration, more than the 10 s of the timeout) to the engine.
C21_NoCancellationAcrossHops ==
    [][ \A j \in Jobs :
            /\ ( /\ uplink_pc[j] = "forwarding"
                 /\ uplink_pc'[j] = "done"
                 /\ node_pc[j] = "executing" ) =>
                   /\ uplink_resp'[j] = NodeUnreachable
                   /\ UNCHANGED <<engineVars, nodeVars>>
                   /\ Len(job_ticks[j]) = 1
                   /\ IsIdleTick(job_ticks[j][1])
            /\ ( /\ uplink_resp[j] = NodeUnreachable
                 /\ node_pc[j] = "executing" ) =>
                   ENABLED (\E ok \in BOOLEAN, d \in Durations :
                                ProcessJobComplete(j, ok, d))
            /\ ( /\ uplink_resp[j] = NodeUnreachable
                 /\ node_pc[j] = "executing"
                 /\ node_pc'[j] # "executing" ) =>
                   /\ node_pc'[j] = "done"
                   /\ uplink_resp'[j] = NodeUnreachable
                   /\ Len(job_ticks'[j]) = 2
                   /\ job_ticks'[j][2].phase = "exec"
                   /\ job_ticks'[j][2].load = SIMULATED_LOAD_WATTS
                   /\ job_ticks'[j][2].dt > NODE_TIMEOUT
                   /\ last_tick'.job = j
                   /\ current_temp_k' = TickTemp(config, current_temp_k,
                          SIMULATED_LOAD_WATTS, job_ticks'[j][2].dt) ]_vars

\* C21 witness: a job answered 502 by the uplink has been completed by the
\* node all the same, both its ticks applied.
C21_CompletedAfterGiveUp ==
    \E j \in Jobs :
        /\ uplink_resp[j] = NodeUnreachable
        /\ process_calls[j] = 1
        /\ node_pc[j] = "done"
        /\ node_resp[j].status = 200
        /\ Len(job_ticks[j]) = 2
        /\ job_ticks[j][2].measured > NODE_TIMEOUT

====
